---- MODULE Spec2Model ----
(***************************************************************************)
(* The notebook "Using IBTrACS.ipynb" as a state machine.                  *)
(*                                                                         *)
(* The notebook is a straight-line program of code cells run top to bottom *)
(* in one kernel.  It reads the IBTrACS archive three times, as a CSV      *)
(* table, as a shapefile and as a NetCDF file, and in each section selects *)
(* the observations of one storm.  The state is the kernel's global names  *)
(* the cells bind, the archive and the files the cells read, and the       *)
(* position of the run.  A cell that raises stops the run (pc = "halted")  *)
(* and leaves the kernel alive; exit() ends the kernel.                    *)
(*                                                                         *)
(* Cells that only print or draw (head(), print, plot, display) bind       *)
(* nothing that a later cell reads and are part of the action of the cell  *)
(* before them.                                                            *)
(***************************************************************************)
EXTENDS Integers, Sequences, FiniteSets, TLC

VARIABLES
    pc,                 \* the next code cell to run
    error,              \* the cell that raised and its exception, or none
    host_alive,         \* FALSE once exit() has ended the kernel process
    archive,            \* the IBTrACS archive the three URLs serve
    nc_on_disk,         \* IBTrACS.ALL.v04r01.nc exists in the working directory
    download,           \* per section, what its download cell reported
    ibtracs_data,       \* CSV section
    ibtracs_phoebe,
    phoebe_subset,
    zip_file_content,   \* shapefile section
    ibtracs_gdf,
    phoebe_gdf,
    subsetphoebe_gdf,
    coordinates,
    nc_file,            \* NetCDF section
    storm_ids,
    latitudes,
    longitudes,
    wmo_wind,
    wmo_pres,
    times,
    storm_indices,
    filtered_lats,
    filtered_lons,
    filtered_winds,
    filtered_pressures,
    filtered_times,
    valid_data,
    filtered_dates,
    printed,            \* what the cells' branches printed: <<cell, text>>
    reruns              \* how often the extraction cells were run again

vars == <<pc, error, host_alive, archive, nc_on_disk, download,
          ibtracs_data, ibtracs_phoebe, phoebe_subset,
          zip_file_content, ibtracs_gdf, phoebe_gdf, subsetphoebe_gdf,
          coordinates,
          nc_file, storm_ids, latitudes, longitudes, wmo_wind, wmo_pres,
          times, storm_indices, filtered_lats, filtered_lons,
          filtered_winds, filtered_pressures, filtered_times, valid_data,
          filtered_dates, printed, reruns>>

csv_vars == <<ibtracs_data, ibtracs_phoebe, phoebe_subset>>
shp_vars == <<zip_file_content, ibtracs_gdf, phoebe_gdf, subsetphoebe_gdf,
              coordinates>>
nc_arrays == <<storm_ids, latitudes, longitudes, wmo_wind, wmo_pres, times>>
nc_filtered == <<filtered_lats, filtered_lons, filtered_winds,
                 filtered_pressures, filtered_times>>
nc_vars == <<nc_file, nc_arrays, storm_indices, nc_filtered, valid_data,
             filtered_dates>>

----------------------------------------------------------------------------
(* Bounds of the model. *)

\* The archive holds at most MaxLen observations.
MaxLen == 3

\* The width of the NetCDF fixed-width character variable sid.
IdWidth == 14

\* The extraction cells are run again at most MaxReruns times.
MaxReruns == 2

\* Day offsets of the epoch conversion's own specification.
MaxOffset == 500

\* In that specification the two offsets converted differ by at most MaxGap.
MaxGap == 2

----------------------------------------------------------------------------
(* Values. *)

\* A float is a number or NaN (np.isnan is the only test the cells apply).
NaN == [nan |-> TRUE, val |-> 0]
F(x) == [nan |-> FALSE, val |-> x]
isnan(x) == x.nan

\* The value the cells compare wind and pressure with.
MissingSentinel == -9999

\* The storm the CSV and shapefile cells select by name.
TargetName == "PHOEBE"

\* target_sid, as a string.
target_sid == "2012166N09269"

\* Identifiers as the characters a fixed-width variable stores.
SidTarget == <<"2","0","1","2","1","6","6","N","0","9","2","6","9">>
SidOther == <<"1","9","9","9","0","0","1","N","1","0","2","0","0">>
SidLower == <<"2","0","1","2","1","6","6","n","0","9","2","6","9">>

\* A byte outside ASCII, which astype(str) cannot decode.
UndecodableByte == "0xFF"
SidCorrupt == [SidOther EXCEPT ![1] = UndecodableByte]

\* A fixed-width identifier: the characters, then the padding (a NUL byte
\* reads as the empty string, a blank as " ").
Padded(chars, pad) ==
    chars \o [i \in 1..(IdWidth - Len(chars)) |-> pad]

\* One observation of the archive.
Obs(sid, name, t, lat, lon, wind, pres) ==
    [sid |-> sid, name |-> name, time |-> t, lat |-> lat, lon |-> lon,
     wind |-> wind, pres |-> pres, speed |-> 12]

\* The observations an archive of the model is made of: the target storm
\* with every field present, with each of the four fields missing in turn,
\* another storm, and two identifiers that differ from the target's only in
\* padding or in case.
ObsKinds ==
    { Obs(Padded(SidTarget, ""), "PHOEBE", 0, F(10), F(20), 42, 1000),
      Obs(Padded(SidTarget, ""), "PHOEBE", 1, F(11), F(21), 45, 990),
      Obs(Padded(SidTarget, ""), "PHOEBE", 0, NaN, F(20), 42, 1000),
      Obs(Padded(SidTarget, ""), "PHOEBE", 1, F(11), NaN, 45, 990),
      Obs(Padded(SidTarget, ""), "PHOEBE", 0, F(10), F(20), MissingSentinel, 1000),
      Obs(Padded(SidTarget, ""), "PHOEBE", 1, F(11), F(21), 45, MissingSentinel),
      Obs(Padded(SidOther, ""), "NOT_NAMED", 0, F(30), F(40), 60, 980),
      Obs(Padded(SidTarget, " "), "PHOEBE ", 1, F(12), F(22), 50, 985),
      Obs(Padded(SidLower, ""), "Phoebe", 0, F(13), F(23), 55, 975),
      Obs(Padded(SidCorrupt, ""), "NOT_NAMED", 1, F(31), F(41), 61, 981) }

\* The archives of the model: every sequence of at most MaxLen observations,
\* in any order.
Archives == UNION { [1..n -> ObsKinds] : n \in 0..MaxLen }

----------------------------------------------------------------------------
(* The library operations the cells call. *)

\* The selected rows in the reverse of the table's order.
RECURSIVE SelectRowsReversed(_, _)
SelectRowsReversed(rows, mask) ==
    IF rows = <<>> THEN <<>>
    ELSE SelectRowsReversed(Tail(rows), Tail(mask))
         \o (IF Head(mask) THEN <<Head(rows)>> ELSE <<>>)

\* df[mask]: the rows a boolean mask selects, in the table's order.
RECURSIVE SelectRows(_, _)
SelectRows(rows, mask) ==
    IF rows = <<>> THEN <<>>
    ELSE (IF Head(mask) THEN <<Head(rows)>> ELSE <<>>)
         \o SelectRows(Tail(rows), Tail(mask))

\* df['NAME'] == name: the mask of an exact string comparison.
NameMask(rows, name) == [i \in 1..Len(rows) |-> rows[i].NAME = name]

\* pd.read_csv(url): one row per observation, in the archive's order.
ReadCsv(a) ==
    [i \in 1..Len(a) |->
        [NAME |-> a[i].name, ISO_TIME |-> a[i].time, LAT |-> a[i].lat,
         LON |-> a[i].lon, STORM_SPEED |-> a[i].speed,
         WMO_WIND |-> a[i].wind, WMO_PRES |-> a[i].pres]]

\* gpd.read_file(shapefile_path): the rows with the geometry of each; the
\* geometry of the i-th record is named by i.
ReadShapefile(a) ==
    [i \in 1..Len(a) |->
        [geometry |-> i, NAME |-> a[i].name, ISO_TIME |-> a[i].time,
         LAT |-> a[i].lat, LON |-> a[i].lon,
         WMO_WIND |-> a[i].wind, WMO_PRES |-> a[i].pres]]

\* Dataset(path, mode='r'): the co-indexed variables of the file, one
\* element of each per position.
OpenDataset(a) ==
    [open |-> TRUE,
     sid |-> [i \in 1..Len(a) |-> a[i].sid],
     lat |-> [i \in 1..Len(a) |-> a[i].lat],
     lon |-> [i \in 1..Len(a) |-> a[i].lon],
     wmo_wind |-> [i \in 1..Len(a) |-> a[i].wind],
     wmo_pres |-> [i \in 1..Len(a) |-> a[i].pres],
     time |-> [i \in 1..Len(a) |-> a[i].time]]

NoDataset == [open |-> FALSE]

\* ''.join(sid.astype(str)): the characters of the joined string; a NUL byte
\* contributes nothing.
JoinChars(raw) == SelectSeq(raw, LAMBDA c : c # "")

\* The characters str.strip() removes at both ends.
Whitespace == {" ", "\t", "\n", "\r"}

RECURSIVE LStrip(_)
LStrip(cs) ==
    IF cs = <<>> THEN <<>>
    ELSE IF Head(cs) \in Whitespace THEN LStrip(Tail(cs)) ELSE cs

RECURSIVE RStrip(_)
RStrip(cs) ==
    IF cs = <<>> THEN <<>>
    ELSE IF cs[Len(cs)] \in Whitespace
         THEN RStrip(SubSeq(cs, 1, Len(cs) - 1)) ELSE cs

Strip(cs) == RStrip(LStrip(cs))

\* The string made of the characters cs.
RECURSIVE ToStr(_)
ToStr(cs) == IF cs = <<>> THEN "" ELSE Head(cs) \o ToStr(Tail(cs))

\* sid.astype(str) decodes bytes as ASCII and raises on any other byte.
Decodable(raw) == \A i \in 1..Len(raw) : raw[i] # UndecodableByte

\* The decoding with the strip() left out.
DecodeSidNoStrip(raw) == ToStr(JoinChars(raw))

\* ''.join(sid.astype(str)).strip() for one fixed-width identifier.
DecodeSid(raw) == ToStr(Strip(JoinChars(raw)))

\* [decode(sid) for sid in storm_ids]
DecodeAll(raws) == [i \in 1..Len(raws) |-> DecodeSid(raws[i])]

\* np.where(mask)[0]: the 0-based positions where mask holds, ascending.
RECURSIVE WhereFrom(_, _)
WhereFrom(mask, i) ==
    IF i > Len(mask) THEN <<>>
    ELSE (IF mask[i] THEN <<i - 1>> ELSE <<>>) \o WhereFrom(mask, i + 1)

\* Only the first position where mask holds, as ids.index(target) gives.
WhereFirstOnly(mask) ==
    IF WhereFrom(mask, 1) = <<>> THEN <<>> ELSE <<Head(WhereFrom(mask, 1))>>

Where(mask) == WhereFrom(mask, 1)

\* np.array(storm_ids) == target_sid
SidMask(ids, target) == [i \in 1..Len(ids) |-> ids[i] = target]

\* arr[storm_indices].flatten(): the elements at the 0-based positions idx,
\* in the order of idx.
Take(arr, idx) == [k \in 1..Len(idx) |-> arr[idx[k] + 1]]

Min(S) == CHOOSE x \in S : \A y \in S : x <= y

\* zip(a, b, c, d, e): tuples up to the shortest argument.
Zip5(a, b, c, d, e) ==
    [i \in 1..Min({Len(a), Len(b), Len(c), Len(d), Len(e)}) |->
        <<a[i], b[i], c[i], d[i], e[i]>>]

\* The condition with the pressure test left out.
IsValidNoPressure(r) ==
    /\ ~isnan(r[1])
    /\ ~isnan(r[2])
    /\ r[3] # MissingSentinel

\* The condition of the valid_data comprehension on one tuple
\* (lat, lon, wind, pres, t).
IsValid(r) ==
    /\ ~isnan(r[1])
    /\ ~isnan(r[2])
    /\ r[3] # MissingSentinel
    /\ r[4] # MissingSentinel

\* The comprehension with the latitudes taken one position late
\* (zip(lats[1:], lons, ...)).
ValidDataShifted(lats, lons, winds, press, ts) ==
    SelectSeq(Zip5(IF lats = <<>> THEN <<>> ELSE Tail(lats), lons, winds,
                   press, ts), IsValid)

\* valid_data = [(lat, lon, wind, pres, t) for ... in zip(...) if ...]
ValidData(lats, lons, winds, press, ts) ==
    SelectSeq(Zip5(lats, lons, winds, press, ts), IsValid)

\* zip(*valid_data): the k-th of the five tuples it yields.
Column(vd, k) == [i \in 1..Len(vd) |-> vd[i][k]]

----------------------------------------------------------------------------
(* datetime(1858, 11, 17) + timedelta(days=t): the date is turned into its *)
(* proleptic Gregorian ordinal, the days are added, and the ordinal is     *)
(* turned back into a date.  Offsets are whole days.                       *)

Date(y, m, d) == [year |-> y, month |-> m, day |-> d]

\* The Unix epoch in the place of the Julian day reference.
start_date_unix == Date(1970, 1, 1)

\* start_date = datetime(1858, 11, 17)
start_date == Date(1858, 11, 17)

IsLeap(y) == y % 4 = 0 /\ (y % 100 # 0 \/ y % 400 = 0)

DaysInMonth == <<31, 28, 31, 30, 31, 30, 31, 31, 30, 31, 30, 31>>

\* The days of a common year before the first of month m.
RECURSIVE DaysBeforeMonthCommon(_)
DaysBeforeMonthCommon(m) ==
    IF m <= 1 THEN 0 ELSE DaysBeforeMonthCommon(m - 1) + DaysInMonth[m - 1]

DaysBeforeMonth(y, m) ==
    DaysBeforeMonthCommon(m) + (IF m > 2 /\ IsLeap(y) THEN 1 ELSE 0)

DaysBeforeYear(year) ==
    LET y == year - 1
    IN  y * 365 + (y \div 4) - (y \div 100) + (y \div 400)

\* The ordinal of a date; 0001-01-01 is day 1.
Ymd2Ord(date) ==
    DaysBeforeYear(date.year) + DaysBeforeMonth(date.year, date.month)
    + date.day

DI400Y == DaysBeforeYear(401)
DI100Y == DaysBeforeYear(101)
DI4Y == DaysBeforeYear(5)

\* The date of an ordinal.
Ord2Ymd(ord) ==
    LET n0 == ord - 1
        n400 == n0 \div DI400Y
        r400 == n0 % DI400Y
        n100 == r400 \div DI100Y
        r100 == r400 % DI100Y
        n4 == r100 \div DI4Y
        r4 == r100 % DI4Y
        n1 == r4 \div 365
        n == r4 % 365
        year == n400 * 400 + 1 + n100 * 100 + n4 * 4 + n1
        leapyear == n1 = 3 /\ (n4 # 24 \/ n100 = 3)
        guess == (n + 50) \div 32
        before(m) ==
            DaysBeforeMonthCommon(m) + (IF m > 2 /\ leapyear THEN 1 ELSE 0)
        month == IF before(guess) > n THEN guess - 1 ELSE guess
    IN  IF n1 = 4 \/ n100 = 4
        THEN Date(year - 1, 12, 31)
        ELSE Date(year, month, n - before(month) + 1)

\* date + timedelta(days=t)
AddDays(date, t) == Ord2Ymd(Ymd2Ord(date) + t)

\* [start_date + timedelta(days=t) for t in filtered_times]
ConvertAll(ts) == [i \in 1..Len(ts) |-> AddDays(start_date, ts[i])]

----------------------------------------------------------------------------
(* The run. *)

Sections == {"csv", "shp", "nc"}

NoError == [cell |-> "none", exception |-> "none"]

\* print(text) in the cell being run.
Output(text) == Append(printed, <<pc, text>>)

\* A fresh kernel in a working directory that may hold the NetCDF file of an
\* earlier run, reading one of the archives As.
InitWith(As) ==
    /\ pc = "read_csv"
    /\ error = NoError
    /\ host_alive = TRUE
    /\ archive \in As
    /\ nc_on_disk \in BOOLEAN
    /\ download = [s \in Sections |-> "none"]
    /\ ibtracs_data = <<>>
    /\ ibtracs_phoebe = <<>>
    /\ phoebe_subset = <<>>
    /\ zip_file_content = "undefined"
    /\ ibtracs_gdf = <<>>
    /\ phoebe_gdf = <<>>
    /\ subsetphoebe_gdf = <<>>
    /\ coordinates = <<>>
    /\ nc_file = NoDataset
    /\ storm_ids = <<>>
    /\ latitudes = <<>>
    /\ longitudes = <<>>
    /\ wmo_wind = <<>>
    /\ wmo_pres = <<>>
    /\ times = <<>>
    /\ storm_indices = <<>>
    /\ filtered_lats = <<>>
    /\ filtered_lons = <<>>
    /\ filtered_winds = <<>>
    /\ filtered_pressures = <<>>
    /\ filtered_times = <<>>
    /\ valid_data = <<>>
    /\ filtered_dates = <<>>
    /\ printed = <<>>
    /\ reruns = 0

Init == InitWith(Archives)

\* The cell raised: the run stops there, the kernel stays.
Raise(e) ==
    /\ pc' = "halted"
    /\ error' = [cell |-> pc, exception |-> e]

\* ibtracs_data = pd.read_csv(url): the download and the parse in one call,
\* which raises when the URL cannot be read.
ReadCsvCell ==
    /\ pc = "read_csv"
    /\ \E ok \in BOOLEAN :
          IF ok
          THEN /\ ibtracs_data' = ReadCsv(archive)
               /\ download' = [download EXCEPT !["csv"] = "ok"]
               /\ pc' = "filter_name"
               /\ error' = error
          ELSE /\ download' = [download EXCEPT !["csv"] = "failed"]
               /\ Raise("URLError")
               /\ ibtracs_data' = ibtracs_data
    /\ UNCHANGED <<host_alive, archive, nc_on_disk, ibtracs_phoebe,
                   phoebe_subset, shp_vars, nc_vars, printed, reruns>>

\* ibtracs_phoebe = ibtracs_data[ibtracs_data['NAME'] == 'PHOEBE']
FilterByName ==
    /\ pc = "filter_name"
    /\ ibtracs_phoebe' =
          SelectRows(ibtracs_data, NameMask(ibtracs_data, TargetName))
    /\ pc' = "subset_columns"
    /\ UNCHANGED <<error, host_alive, archive, nc_on_disk, download,
                   ibtracs_data, phoebe_subset, shp_vars, nc_vars, printed,
                   reruns>>

\* phoebe_subset = ibtracs_phoebe[['LAT', 'LON', 'STORM_SPEED']]
SubsetColumns ==
    /\ pc = "subset_columns"
    /\ phoebe_subset' =
          [i \in 1..Len(ibtracs_phoebe) |->
              [LAT |-> ibtracs_phoebe[i].LAT, LON |-> ibtracs_phoebe[i].LON,
               STORM_SPEED |-> ibtracs_phoebe[i].STORM_SPEED]]
    /\ pc' = "download_shapefile"
    /\ UNCHANGED <<error, host_alive, archive, nc_on_disk, download,
                   ibtracs_data, ibtracs_phoebe, shp_vars, nc_vars, printed,
                   reruns>>

\* The try block around requests.get(url, timeout=10): only HTTPError is
\* caught, and then nothing is bound; any other failure of the request
\* (no connection, timeout) leaves the cell as an exception.
DownloadShapefile ==
    /\ pc = "download_shapefile"
    /\ \E outcome \in {"ok", "HTTPError", "ConnectionError"} :
          CASE outcome = "ok" ->
                 /\ zip_file_content' = "bytes"
                 /\ download' = [download EXCEPT !["shp"] = "ok"]
                 /\ printed' = Output("File downloaded successfully.")
                 /\ pc' = "check_metadata"
                 /\ error' = error
            [] outcome = "HTTPError" ->
                 /\ zip_file_content' = zip_file_content
                 /\ download' = [download EXCEPT !["shp"] = "failed"]
                 /\ printed' = Output("HTTP error occurred")
                 /\ pc' = "check_metadata"
                 /\ error' = error
            [] outcome = "ConnectionError" ->
                 /\ zip_file_content' = zip_file_content
                 /\ download' = [download EXCEPT !["shp"] = "failed"]
                 /\ printed' = printed
                 /\ Raise("ConnectionError")
    /\ UNCHANGED <<host_alive, archive, nc_on_disk, csv_vars, ibtracs_gdf,
                   phoebe_gdf, subsetphoebe_gdf, coordinates, nc_vars,
                   reruns>>

\* if zip_file_content: print(response.headers)
CheckMetadata ==
    /\ pc = "check_metadata"
    /\ IF zip_file_content = "undefined"
       THEN Raise("NameError")
       ELSE pc' = "save_zip" /\ error' = error
    /\ UNCHANGED <<host_alive, archive, nc_on_disk, download, csv_vars,
                   shp_vars, nc_vars, printed, reruns>>

\* with open('IBTrACS.zip', 'wb') as f: f.write(zip_file_content)
SaveZip ==
    /\ pc = "save_zip"
    /\ IF zip_file_content = "undefined"
       THEN Raise("NameError")
       ELSE pc' = "load_shapefile" /\ error' = error
    /\ UNCHANGED <<host_alive, archive, nc_on_disk, download, csv_vars,
                   shp_vars, nc_vars, printed, reruns>>

\* zipfile.ZipFile(...).extractall(...); ibtracs_gdf = gpd.read_file(...):
\* raises when the saved bytes are no archive holding the shapefile.
LoadShapefile ==
    /\ pc = "load_shapefile"
    /\ \E ok \in BOOLEAN :
          IF ok
          THEN /\ ibtracs_gdf' = ReadShapefile(archive)
               /\ pc' = "filter_gdf"
               /\ error' = error
          ELSE /\ ibtracs_gdf' = ibtracs_gdf
               /\ Raise("BadZipFile")
    /\ UNCHANGED <<host_alive, archive, nc_on_disk, download, csv_vars,
                   zip_file_content, phoebe_gdf, subsetphoebe_gdf,
                   coordinates, nc_vars, printed, reruns>>

\* phoebe_gdf = ibtracs_gdf[ibtracs_gdf['NAME'] == 'PHOEBE']
FilterGdf ==
    /\ pc = "filter_gdf"
    /\ phoebe_gdf' = SelectRows(ibtracs_gdf, NameMask(ibtracs_gdf, TargetName))
    /\ pc' = "subset_gdf"
    /\ UNCHANGED <<error, host_alive, archive, nc_on_disk, download, csv_vars,
                   zip_file_content, ibtracs_gdf, subsetphoebe_gdf,
                   coordinates, nc_vars, printed, reruns>>

\* subsetphoebe_gdf = phoebe_gdf[['geometry', 'LAT', 'LON']]
SubsetGdf ==
    /\ pc = "subset_gdf"
    /\ subsetphoebe_gdf' =
          [i \in 1..Len(phoebe_gdf) |->
              [geometry |-> phoebe_gdf[i].geometry, LAT |-> phoebe_gdf[i].LAT,
               LON |-> phoebe_gdf[i].LON]]
    /\ pc' = "map_gdf"
    /\ UNCHANGED <<error, host_alive, archive, nc_on_disk, download, csv_vars,
                   zip_file_content, ibtracs_gdf, phoebe_gdf, coordinates,
                   nc_vars, printed, reruns>>

\* coordinates = subsetphoebe_gdf[['LAT', 'LON']].values.tolist(), the
\* locations of the markers and of the polyline, in row order.
MapGdf ==
    /\ pc = "map_gdf"
    /\ coordinates' =
          [i \in 1..Len(subsetphoebe_gdf) |->
              <<subsetphoebe_gdf[i].LAT, subsetphoebe_gdf[i].LON>>]
    /\ pc' = "download_netcdf"
    /\ UNCHANGED <<error, host_alive, archive, nc_on_disk, download, csv_vars,
                   zip_file_content, ibtracs_gdf, phoebe_gdf,
                   subsetphoebe_gdf, nc_vars, printed, reruns>>

\* response = requests.get(url); a status other than 200 is printed and the
\* cell ends normally with no file written; a request that cannot be made
\* raises.
DownloadNetCDF ==
    /\ pc = "download_netcdf"
    /\ \E outcome \in {"200", "404", "ConnectionError"} :
          CASE outcome = "200" ->
                 /\ nc_on_disk' = TRUE
                 /\ download' = [download EXCEPT !["nc"] = "ok"]
                 /\ printed' = Output("File downloaded successfully.")
                 /\ pc' = "load_netcdf"
                 /\ error' = error
            [] outcome = "404" ->
                 /\ nc_on_disk' = nc_on_disk
                 /\ download' = [download EXCEPT !["nc"] = "failed"]
                 /\ printed' = Output("Failed to download file.")
                 /\ pc' = "load_netcdf"
                 /\ error' = error
            [] outcome = "ConnectionError" ->
                 /\ nc_on_disk' = nc_on_disk
                 /\ download' = [download EXCEPT !["nc"] = "failed"]
                 /\ printed' = printed
                 /\ Raise("ConnectionError")
    /\ UNCHANGED <<host_alive, archive, csv_vars, shp_vars, nc_vars, reruns>>

\* nc_file = Dataset('IBTrACS.ALL.v04r01.nc', mode='r')
LoadNetCDF ==
    /\ pc = "load_netcdf"
    /\ IF nc_on_disk
       THEN /\ nc_file' = OpenDataset(archive)
            /\ pc' = "access_latlon"
            /\ error' = error
       ELSE /\ nc_file' = nc_file
            /\ Raise("FileNotFoundError")
    /\ UNCHANGED <<host_alive, archive, nc_on_disk, download, csv_vars,
                   shp_vars, nc_arrays, storm_indices, nc_filtered,
                   valid_data, filtered_dates, printed, reruns>>

\* latitudes = nc_file.variables['lat'][:]; longitudes = ...['lon'][:]
AccessLatLon ==
    /\ pc = "access_latlon"
    /\ latitudes' = nc_file.lat
    /\ longitudes' = nc_file.lon
    /\ pc' = "access_variables"
    /\ UNCHANGED <<error, host_alive, archive, nc_on_disk, download, csv_vars,
                   shp_vars, nc_file, storm_ids, wmo_wind, wmo_pres, times,
                   storm_indices, nc_filtered, valid_data, filtered_dates,
                   printed, reruns>>

\* The six variables are read, and storm_ids is rebound to the decoded
\* strings; the comprehension has no handler, so one identifier that cannot
\* be decoded ends the cell with storm_ids still bound to the raw array.
AccessVariables ==
    /\ pc = "access_variables"
    /\ latitudes' = nc_file.lat
    /\ longitudes' = nc_file.lon
    /\ wmo_wind' = nc_file.wmo_wind
    /\ wmo_pres' = nc_file.wmo_pres
    /\ times' = nc_file.time
    /\ IF \A i \in 1..Len(nc_file.sid) : Decodable(nc_file.sid[i])
       THEN /\ storm_ids' = DecodeAll(nc_file.sid)
            /\ pc' = "verify_target"
            /\ error' = error
       ELSE /\ storm_ids' = nc_file.sid
            /\ Raise("UnicodeDecodeError")
    /\ UNCHANGED <<host_alive, archive, nc_on_disk, download, csv_vars,
                   shp_vars, nc_file, storm_indices, nc_filtered, valid_data,
                   filtered_dates, printed, reruns>>

\* target_sid in storm_ids
Contains(ids, target) == \E i \in 1..Len(ids) : ids[i] = target

\* if target_sid in storm_ids: print(found) else: print(not found); exit()
VerifyTarget ==
    /\ pc = "verify_target"
    /\ IF Contains(storm_ids, target_sid)
       THEN /\ printed' = Output("Storm ID found in the dataset.")
            /\ pc' = "extract_storm"
            /\ host_alive' = host_alive
       ELSE /\ printed' = Output("Storm ID not found in the dataset.")
            /\ pc' = "exited"
            /\ host_alive' = FALSE
    /\ UNCHANGED <<error, archive, nc_on_disk, download, csv_vars, shp_vars,
                   nc_vars, reruns>>

\* The values the selection cell binds: storm_indices and the five arrays
\* indexed by it.
Selection ==
    LET idx == Where(SidMask(storm_ids, target_sid))
    IN  [indices |-> idx,
         lats |-> Take(latitudes, idx),
         lons |-> Take(longitudes, idx),
         winds |-> Take(wmo_wind, idx),
         pressures |-> Take(wmo_pres, idx),
         times |-> Take(times, idx)]

\* The selection cell with the latitudes rebound under their own name
\* (latitudes = latitudes[storm_indices].flatten()).
ExtractStormDataInPlace ==
    /\ pc = "extract_storm"
    /\ storm_indices' = Selection.indices
    /\ latitudes' = Selection.lats
    /\ filtered_lats' = Selection.lats
    /\ filtered_lons' = Selection.lons
    /\ filtered_winds' = Selection.winds
    /\ filtered_pressures' = Selection.pressures
    /\ filtered_times' = Selection.times
    /\ pc' = "filter_valid"
    /\ UNCHANGED <<error, host_alive, archive, nc_on_disk, download, csv_vars,
                   shp_vars, nc_file, storm_ids, longitudes, wmo_wind,
                   wmo_pres, times, valid_data, filtered_dates, printed,
                   reruns>>

\* storm_indices = np.where(...)[0]; filtered_x = x[storm_indices].flatten()
ExtractStormData ==
    /\ pc = "extract_storm"
    /\ storm_indices' = Selection.indices
    /\ filtered_lats' = Selection.lats
    /\ filtered_lons' = Selection.lons
    /\ filtered_winds' = Selection.winds
    /\ filtered_pressures' = Selection.pressures
    /\ filtered_times' = Selection.times
    /\ pc' = "filter_valid"
    /\ UNCHANGED <<error, host_alive, archive, nc_on_disk, download, csv_vars,
                   shp_vars, nc_file, nc_arrays, valid_data, filtered_dates,
                   printed, reruns>>

\* The filtering cell run on the five sequences given: valid_data is bound;
\* when it is not empty the five names are rebound to its columns, and
\* otherwise a message is printed and the five names keep what they held.
FilterCell(lats, lons, winds, press, ts) ==
    LET vd == ValidData(lats, lons, winds, press, ts)
    IN  /\ valid_data' = vd
        /\ IF vd # <<>>
           THEN /\ filtered_lats' = Column(vd, 1)
                /\ filtered_lons' = Column(vd, 2)
                /\ filtered_winds' = Column(vd, 3)
                /\ filtered_pressures' = Column(vd, 4)
                /\ filtered_times' = Column(vd, 5)
                /\ printed' = printed
           ELSE /\ filtered_lats' = lats
                /\ filtered_lons' = lons
                /\ filtered_winds' = winds
                /\ filtered_pressures' = press
                /\ filtered_times' = ts
                /\ printed' = Output("No valid data points to plot.")

FilterValid ==
    /\ pc = "filter_valid"
    /\ FilterCell(filtered_lats, filtered_lons, filtered_winds,
                  filtered_pressures, filtered_times)
    /\ pc' = "convert_dates"
    /\ UNCHANGED <<error, host_alive, archive, nc_on_disk, download, csv_vars,
                   shp_vars, nc_file, nc_arrays, storm_indices,
                   filtered_dates, reruns>>

\* filtered_dates = [start_date + timedelta(days=t) for t in filtered_times]
ConvertDates ==
    /\ pc = "convert_dates"
    /\ filtered_dates' = ConvertAll(filtered_times)
    /\ pc' = "plot_series"
    /\ UNCHANGED <<error, host_alive, archive, nc_on_disk, download, csv_vars,
                   shp_vars, nc_file, nc_arrays, storm_indices, nc_filtered,
                   valid_data, printed, reruns>>

\* ax1.plot(filtered_dates, filtered_winds); ax2.plot(filtered_dates,
\* filtered_pressures): matplotlib raises when x and y differ in length.
PlotTimeSeries ==
    /\ pc = "plot_series"
    /\ IF /\ Len(filtered_dates) = Len(filtered_winds)
          /\ Len(filtered_dates) = Len(filtered_pressures)
       THEN pc' = "done" /\ error' = error
       ELSE Raise("ValueError")
    /\ UNCHANGED <<host_alive, archive, nc_on_disk, download, csv_vars,
                   shp_vars, nc_vars, printed, reruns>>

\* The filtering cell run once more in the same kernel, on what the five
\* names hold now.
RerunFilterValid ==
    /\ pc = "done"
    /\ reruns < MaxReruns
    /\ reruns' = reruns + 1
    /\ FilterCell(filtered_lats, filtered_lons, filtered_winds,
                  filtered_pressures, filtered_times)
    /\ UNCHANGED <<pc, error, host_alive, archive, nc_on_disk, download,
                   csv_vars, shp_vars, nc_file, nc_arrays, storm_indices,
                   filtered_dates>>

\* The extraction run once more in the same kernel: the selection cell and
\* then the filtering cell.
RerunTrackExtraction ==
    /\ pc = "done"
    /\ reruns < MaxReruns
    /\ reruns' = reruns + 1
    /\ storm_indices' = Selection.indices
    /\ FilterCell(Selection.lats, Selection.lons, Selection.winds,
                  Selection.pressures, Selection.times)
    /\ UNCHANGED <<pc, error, host_alive, archive, nc_on_disk, download,
                   csv_vars, shp_vars, nc_file, nc_arrays, filtered_dates>>

Next ==
    \/ ReadCsvCell
    \/ FilterByName
    \/ SubsetColumns
    \/ DownloadShapefile
    \/ CheckMetadata
    \/ SaveZip
    \/ LoadShapefile
    \/ FilterGdf
    \/ SubsetGdf
    \/ MapGdf
    \/ DownloadNetCDF
    \/ LoadNetCDF
    \/ AccessLatLon
    \/ AccessVariables
    \/ VerifyTarget
    \/ ExtractStormData
    \/ FilterValid
    \/ ConvertDates
    \/ PlotTimeSeries
    \/ RerunFilterValid
    \/ RerunTrackExtraction

Spec == Init /\ [][Next]_vars

----------------------------------------------------------------------------
(* The epoch conversion on its own: the same run over archives of two      *)
(* observations of the target storm, every field present, whose day        *)
(* offsets range over 0..MaxOffset and lie at most MaxGap apart.           *)

EpochObs(t) == Obs(Padded(SidTarget, ""), "PHOEBE", t, F(10), F(20), 42, 1000)

EpochArchives ==
    { <<EpochObs(a), EpochObs(b)>> :
        <<a, b>> \in { w \in (0..MaxOffset) \X (0..MaxOffset) :
                         w[1] - w[2] <= MaxGap /\ w[2] - w[1] <= MaxGap } }

InitEpoch == InitWith(EpochArchives)

SpecEpoch == InitEpoch /\ [][Next]_vars

----------------------------------------------------------------------------
(* Where the run is. *)

\* The code cells in the order the notebook runs them.
Cells ==
    <<"read_csv", "filter_name", "subset_columns", "download_shapefile",
      "check_metadata", "save_zip", "load_shapefile", "filter_gdf",
      "subset_gdf", "map_gdf", "download_netcdf", "load_netcdf",
      "access_latlon", "access_variables", "verify_target", "extract_storm",
      "filter_valid", "convert_dates", "plot_series", "done">>

Rank(c) == CHOOSE i \in 1..Len(Cells) : Cells[i] = c

\* The cell the run is at: the next one, or the one that raised or exited.
At ==
    IF pc = "halted" THEN error.cell
    ELSE IF pc = "exited" THEN "verify_target"
    ELSE pc

\* Cell c has run to its end.
Completed(c) == Rank(c) < Rank(At)

\* A cell among cs has reported that the target is missing.
NotFoundReported(cs) ==
    \/ \E i \in 1..Len(printed) :
          printed[i][1] \in cs /\ printed[i][2] = "Storm ID not found in the dataset."
    \/ error.cell \in cs /\ error.exception = "StormNotFound"

NamePresent(rows) == \E i \in 1..Len(rows) : rows[i].NAME = TargetName

\* The missing-value rules on a row of a table.
RowMissing(r) ==
    \/ isnan(r.LAT)
    \/ isnan(r.LON)
    \/ r.WMO_WIND = MissingSentinel
    \/ r.WMO_PRES = MissingSentinel

\* The track each section hands on.
CsvTrack == ibtracs_phoebe
ShpTrack == phoebe_gdf
NcTrack ==
    Zip5(filtered_lats, filtered_lons, filtered_winds, filtered_pressures,
         filtered_times)

NonDecreasing(ts) == \A i \in 1..(Len(ts) - 1) : ts[i] <= ts[i + 1]

\* The missing-value rules on position i (1-based) of the NetCDF arrays.
PositionMissing(i) ==
    \/ isnan(latitudes[i])
    \/ isnan(longitudes[i])
    \/ wmo_wind[i] = MissingSentinel
    \/ wmo_pres[i] = MissingSentinel

\* The target's cell of the NetCDF section has decided (it ran to its end,
\* or it left through exit()).
VerifyTargetRan == Completed("verify_target") \/ pc = "exited"

----------------------------------------------------------------------------
(* The claims. *)

\* C1: in each of the three sections, selecting a target that does not
\* occur among the source's identifiers is reported as not found, and the
\* section does not go on with an empty selection.
C1_AbsentTargetIsNotFound ==
    /\ (Completed("filter_name") /\ ~NamePresent(ibtracs_data))
          => NotFoundReported({"filter_name"})
    /\ (Completed("filter_gdf") /\ ~NamePresent(ibtracs_gdf))
          => NotFoundReported({"filter_gdf"})
    /\ (VerifyTargetRan /\ ~Contains(storm_ids, target_sid))
          => NotFoundReported({"verify_target"})

\* C2: no reachable state has the hosting process ended; in particular the
\* not-found branch of the NetCDF section leaves it running.
C2_HostKeepsRunning == host_alive /\ pc # "exited"

\* C3: in each of the three sections, when the target is present and every
\* one of its observations is missing a value, the track handed on is
\* empty, no exception is raised by the extraction, and not-found is not
\* reported.
C3_AllMissingYieldsEmptyTrack ==
    /\ (/\ Completed("subset_columns")
        /\ NamePresent(ibtracs_data)
        /\ \A i \in 1..Len(ibtracs_data) :
              ibtracs_data[i].NAME = TargetName => RowMissing(ibtracs_data[i]))
          => CsvTrack = <<>> /\ phoebe_subset = <<>>
    /\ (/\ Completed("subset_gdf")
        /\ NamePresent(ibtracs_gdf)
        /\ \A i \in 1..Len(ibtracs_gdf) :
              ibtracs_gdf[i].NAME = TargetName => RowMissing(ibtracs_gdf[i]))
          => ShpTrack = <<>> /\ subsetphoebe_gdf = <<>>
    /\ (/\ Completed("filter_valid")
        /\ Contains(storm_ids, target_sid)
        /\ \A i \in 1..Len(storm_ids) :
              storm_ids[i] = target_sid => PositionMissing(i))
          => /\ NcTrack = <<>>
             /\ ~NotFoundReported({"verify_target"})
             /\ error.cell \notin {"extract_storm", "filter_valid"}

\* C4: in the NetCDF section, once the filtering cell has run, none of the
\* observations handed on to the later cells has a NaN latitude or
\* longitude or a wind or pressure of -9999.
C4_NoMissingValueAfterFilter ==
    Completed("filter_valid") =>
        /\ \A i \in 1..Len(filtered_lats) : ~isnan(filtered_lats[i])
        /\ \A i \in 1..Len(filtered_lons) : ~isnan(filtered_lons[i])
        /\ \A i \in 1..Len(filtered_winds) :
              filtered_winds[i] # MissingSentinel
        /\ \A i \in 1..Len(filtered_pressures) :
              filtered_pressures[i] # MissingSentinel

\* C5: in the CSV and shapefile sections, no row of the selected storm that
\* is handed on has a NaN latitude or longitude.
C5_TableTracksDropNaN ==
    /\ Completed("subset_columns") =>
          \A i \in 1..Len(phoebe_subset) :
              ~isnan(phoebe_subset[i].LAT) /\ ~isnan(phoebe_subset[i].LON)
    /\ Completed("subset_gdf") =>
          \A i \in 1..Len(subsetphoebe_gdf) :
              /\ ~isnan(subsetphoebe_gdf[i].LAT)
              /\ ~isnan(subsetphoebe_gdf[i].LON)

\* C6: the timestamps of every track handed on are non-decreasing, in
\* whatever order the source holds the storm's records.
C6_TimestampsNonDecreasing ==
    /\ Completed("filter_name") =>
          NonDecreasing([i \in 1..Len(CsvTrack) |-> CsvTrack[i].ISO_TIME])
    /\ Completed("filter_gdf") =>
          NonDecreasing([i \in 1..Len(ShpTrack) |-> ShpTrack[i].ISO_TIME])
    /\ Completed("filter_valid") => NonDecreasing(filtered_times)

\* C7: in the NetCDF section, the positions selected are exactly the
\* positions whose decoded identifier equals the target, in ascending
\* order; for the identifiers <<target, target, 1999001N10200>> they are
\* the positions 0 and 1.
C7_SelectedPositions ==
    Completed("extract_storm") =>
        /\ \A p \in 0..(Len(storm_ids) - 1) :
              (storm_ids[p + 1] = target_sid)
                 <=> (\E k \in 1..Len(storm_indices) : storm_indices[k] = p)
        /\ \A k \in 1..Len(storm_indices) :
              storm_indices[k] \in 0..(Len(storm_ids) - 1)
        /\ \A j, k \in 1..Len(storm_indices) :
              j < k => storm_indices[j] < storm_indices[k]
        /\ (storm_ids = <<"2012166N09269", "2012166N09269", "1999001N10200">>
               => storm_indices = <<0, 1>>)

C7_Witness ==
    /\ Completed("extract_storm")
    /\ storm_ids = <<"2012166N09269", "2012166N09269", "1999001N10200">>
    /\ storm_indices = <<0, 1>>

\* C8: running the extraction again in the same kernel, or the filtering
\* cell again on what it produced, leaves the five sequences of the track
\* as they were.
C8_RerunLeavesTrack ==
    [][(RerunFilterValid \/ RerunTrackExtraction)
          => /\ filtered_lats' = filtered_lats
             /\ filtered_lons' = filtered_lons
             /\ filtered_winds' = filtered_winds
             /\ filtered_pressures' = filtered_pressures
             /\ filtered_times' = filtered_times]_vars

\* The filtering cell has been run again on a track from which the first
\* run removed an observation and kept two.
C8_Witness ==
    /\ reruns >= 1
    /\ Len(filtered_lats) = 2
    /\ Len(storm_indices) = 3
    /\ valid_data # <<>>

\* The calendar, stated without ordinals: the length of a month and the day
\* after a date.
CalendarMonthLength(y, m) ==
    IF m \in {4, 6, 9, 11} THEN 30
    ELSE IF m # 2 THEN 31
    ELSE IF y % 4 = 0 /\ (y % 100 # 0 \/ y % 400 = 0) THEN 29
    ELSE 28

NextDay(d) ==
    IF d.day < CalendarMonthLength(d.year, d.month)
    THEN Date(d.year, d.month, d.day + 1)
    ELSE IF d.month < 12 THEN Date(d.year, d.month + 1, 1)
    ELSE Date(d.year + 1, 1, 1)

DateBefore(a, b) ==
    \/ a.year < b.year
    \/ a.year = b.year /\ a.month < b.month
    \/ a.year = b.year /\ a.month = b.month /\ a.day < b.day

\* C9: the conversion maps the day offset d to 1858-11-17 plus d days:
\* offset 0 gives 1858-11-17, offset 1 gives 1858-11-18, an offset one
\* larger gives the next calendar day, and a larger offset gives a later
\* date.
C9_EpochConversion ==
    Completed("convert_dates") =>
        /\ Len(filtered_dates) = Len(filtered_times)
        /\ \A i \in 1..Len(filtered_times) :
              /\ filtered_times[i] = 0 => filtered_dates[i] = Date(1858, 11, 17)
              /\ filtered_times[i] = 1 => filtered_dates[i] = Date(1858, 11, 18)
        /\ \A i, j \in 1..Len(filtered_times) :
              /\ filtered_times[j] = filtered_times[i] + 1
                    => filtered_dates[j] = NextDay(filtered_dates[i])
              /\ filtered_times[i] < filtered_times[j]
                    => DateBefore(filtered_dates[i], filtered_dates[j])
              /\ filtered_times[i] = filtered_times[j]
                    => filtered_dates[i] = filtered_dates[j]

C9_Witness ==
    /\ Completed("convert_dates")
    /\ filtered_times = <<0, 1>>
    /\ filtered_dates = <<Date(1858, 11, 17), Date(1858, 11, 18)>>

\* C10: no section loads its record source after its download reported a
\* failure.
C10_NoLoadAfterFailedDownload ==
    /\ download["csv"] = "failed" => ~Completed("read_csv")
    /\ download["shp"] = "failed" => ~Completed("load_shapefile")
    /\ download["nc"] = "failed"
          => ~Completed("load_netcdf") /\ ~nc_file.open


\* The five values the NetCDF arrays hold at position p (1-based).
SourceTuple(p) ==
    <<latitudes[p], longitudes[p], wmo_wind[p], wmo_pres[p], times[p]>>

\* The source positions (1-based) of the selected candidates, in order.
Candidates == [k \in 1..Len(storm_indices) |-> storm_indices[k] + 1]

\* C11: the filter drops a selected candidate if and only if its latitude
\* or longitude is NaN or its wind or pressure is -9999: valid_data holds,
\* in order, the five source values of every candidate for which none of
\* the four holds, unchanged, and nothing else; when it is not empty the
\* five names are rebound to exactly these.
C11_FilterDropsExactlyMissing ==
    Completed("filter_valid") =>
        LET kept == SelectSeq(Candidates, LAMBDA p : ~PositionMissing(p))
        IN  /\ valid_data = [i \in 1..Len(kept) |-> SourceTuple(kept[i])]
            /\ \A k \in 1..Len(Candidates) :
                  PositionMissing(Candidates[k])
                     <=> ~(\E i \in 1..Len(kept) : kept[i] = Candidates[k])
            /\ valid_data # <<>> => NcTrack = valid_data

\* Of three candidates the filter dropped two, one for its pressure alone,
\* and kept one.
C11_Witness ==
    /\ Completed("filter_valid")
    /\ Len(storm_indices) = 3
    /\ Len(valid_data) = 1
    /\ \E k \in 1..3 :
          /\ wmo_pres[Candidates[k]] = MissingSentinel
          /\ wmo_wind[Candidates[k]] # MissingSentinel


\* C12: the presence of the target is checked before anything is selected
\* for it: in no section does the selection, the filtering or the
\* conversion run for a target the source does not hold.
C12_NoSelectionForAbsentTarget ==
    /\ (Completed("read_csv") /\ ~NamePresent(ibtracs_data))
          => ~Completed("filter_name")
    /\ (Completed("load_shapefile") /\ ~NamePresent(ibtracs_gdf))
          => ~Completed("filter_gdf")
    /\ (Completed("access_variables") /\ ~Contains(storm_ids, target_sid))
          => /\ ~Completed("extract_storm")
             /\ ~Completed("filter_valid")
             /\ ~Completed("convert_dates")

\* C13: every track handed on is its surviving candidates in ascending
\* order of timestamp, candidates of equal timestamp in the order of the
\* source (a row's geometry names its place in the source).
C13_StableAscendingByTimestamp ==
    /\ Completed("filter_name") =>
          \A i, j \in 1..Len(CsvTrack) :
              i < j => CsvTrack[i].ISO_TIME <= CsvTrack[j].ISO_TIME
    /\ Completed("filter_gdf") =>
          \A i, j \in 1..Len(ShpTrack) :
              i < j =>
                 \/ ShpTrack[i].ISO_TIME < ShpTrack[j].ISO_TIME
                 \/ /\ ShpTrack[i].ISO_TIME = ShpTrack[j].ISO_TIME
                    /\ ShpTrack[i].geometry < ShpTrack[j].geometry
    /\ Completed("filter_valid") =>
          \A i, j \in 1..Len(filtered_times) :
              i < j => filtered_times[i] <= filtered_times[j]


ExtractionStep ==
    \/ FilterByName
    \/ SubsetColumns
    \/ FilterGdf
    \/ SubsetGdf
    \/ MapGdf
    \/ VerifyTarget
    \/ ExtractStormData
    \/ FilterValid
    \/ ConvertDates
    \/ PlotTimeSeries
    \/ RerunFilterValid
    \/ RerunTrackExtraction

\* C15: no step of an extraction changes the record source it reads: the
\* archive, the table, the geometry table, the open dataset and the six
\* arrays read from it are after the step what they were before it, and
\* running the extraction again selects the same positions.
C15_ExtractionLeavesSource ==
    [][ExtractionStep
          => /\ UNCHANGED <<archive, ibtracs_data, ibtracs_gdf, nc_file>>
             /\ UNCHANGED <<storm_ids, latitudes, longitudes, wmo_wind,
                            wmo_pres, times>>
             /\ (RerunTrackExtraction => storm_indices' = storm_indices)]_vars

\* An extraction that selected some positions and not others, and dropped
\* some of those, has run and has been run again over the arrays as read.
C15_Witness ==
    /\ reruns >= 1
    /\ Len(storm_indices) \in 1..(Len(latitudes) - 1)
    /\ Len(valid_data) < Len(storm_indices)
    /\ latitudes = nc_file.lat
    /\ wmo_wind = nc_file.wmo_wind


\* The characters of a fixed-width identifier that are not padding (the
\* identifiers of the archive hold no blank of their own).
WithoutPadding(raw) == SelectSeq(raw, LAMBDA c : c \notin {"", " "})

Selected(p) == \E k \in 1..Len(storm_indices) : storm_indices[k] = p - 1

\* C16: a position is decoded to the target's string, and is selected, if
\* and only if the characters of its fixed-width identifier, padding
\* removed, are exactly the target's characters, case included.
C16_MatchIsTrimmedExactEquality ==
    /\ Completed("access_variables") =>
          /\ Len(storm_ids) = Len(nc_file.sid)
          /\ \A p \in 1..Len(nc_file.sid) :
                (storm_ids[p] = target_sid)
                   <=> (WithoutPadding(nc_file.sid[p]) = SidTarget)
    /\ Completed("extract_storm") =>
          \A p \in 1..Len(nc_file.sid) :
              Selected(p) <=> (WithoutPadding(nc_file.sid[p]) = SidTarget)

\* A blank-padded identifier of the target was selected and an identifier
\* that differs from the target's in case alone was not.
C16_Witness ==
    /\ Completed("extract_storm")
    /\ \E p, q \in 1..Len(nc_file.sid) :
          /\ nc_file.sid[p] = Padded(SidTarget, " ")
          /\ Selected(p)
          /\ nc_file.sid[q] = Padded(SidLower, "")
          /\ ~Selected(q)


\* The cells of the array variant's extraction.
ArrayExtractionCells ==
    {"access_variables", "verify_target", "extract_storm", "filter_valid",
     "convert_dates"}

\* C17: with an identifier in the file that cannot be decoded, the array
\* variant's extraction does not end in an error: that record is dropped
\* and the extraction goes on.
C17_UndecodableRecordIsDropped ==
    (/\ nc_file.open
     /\ \E p \in 1..Len(nc_file.sid) : ~Decodable(nc_file.sid[p]))
       => error.cell \notin ArrayExtractionCells


\* C18: what the steps after the filter consume is exactly what passed the
\* filter: the five sequences hold the tuples of valid_data (none when
\* nothing passed), and the converted dates are the dates of valid_data's
\* times.
C18_ConsumedIsWhatPassed ==
    /\ Completed("filter_valid") => NcTrack = valid_data
    /\ Completed("convert_dates") =>
          filtered_dates = ConvertAll(Column(valid_data, 5))


\* The i-th elements of the five per-attribute sequences.
FilteredTuple(i) ==
    <<filtered_lats[i], filtered_lons[i], filtered_winds[i],
      filtered_pressures[i], filtered_times[i]>>

SameLength ==
    /\ Len(filtered_lons) = Len(filtered_lats)
    /\ Len(filtered_winds) = Len(filtered_lats)
    /\ Len(filtered_pressures) = Len(filtered_lats)
    /\ Len(filtered_times) = Len(filtered_lats)

\* C19: after the selection, and after the filtering, the five sequences
\* have one length and their i-th elements are the five values of one
\* selected source position; right after the selection that position is
\* the i-th selected one.
C19_FiveSequencesAligned ==
    /\ Completed("extract_storm") =>
          /\ SameLength
          /\ \A i \in 1..Len(filtered_lats) :
                \E p \in 1..Len(latitudes) :
                    Selected(p) /\ FilteredTuple(i) = SourceTuple(p)
    /\ (pc = "filter_valid" /\ reruns = 0) =>
          /\ Len(filtered_lats) = Len(storm_indices)
          /\ \A i \in 1..Len(storm_indices) :
                FilteredTuple(i) = SourceTuple(Candidates[i])

\* Three observations were selected and the filter dropped the middle one:
\* the two tuples left are those of the first and the third.
C19_Witness ==
    /\ Completed("filter_valid")
    /\ Len(storm_indices) = 3
    /\ PositionMissing(Candidates[2])
    /\ Len(filtered_lats) = 2
    /\ FilteredTuple(1) = SourceTuple(Candidates[1])
    /\ FilteredTuple(2) = SourceTuple(Candidates[3])
    /\ SourceTuple(Candidates[1]) # SourceTuple(Candidates[3])

====
